---- MODULE Spec2Model ----
(***************************************************************************)
(* A model of DSLib's DataSet (DataSet.h / DataSet.cpp): a vector of       *)
(* DataVar column descriptors and a vector of DataElement rows, each row a *)
(* heap buffer of get_element_size() bytes.                                *)
(*                                                                         *)
(* size_t values are kept as integers; a value that wrapped below zero     *)
(* (x - y with y > x, i.e. 2^64 + x - y) is represented by the negative    *)
(* integer x - y, and compared as an unsigned value by UGT.                *)
(*                                                                         *)
(* A row buffer is a sequence of bytes; byte p (1-based) of the sequence   *)
(* is data[p-1].  Memory that the program reads without having written it  *)
(* (a fresh new char[n], or bytes past the end of a buffer) holds          *)
(* arbitrary bytes, chosen with \E in the action that reads them.          *)
(***************************************************************************)
EXTENDS Integers, Sequences, FiniteSets, TLC

VARIABLES status, data_variables, data_elements, ret, repacks,
          file, out, scan, copy_variables, copy_elements

\* the DataSet the calls are made on; a second DataSet object
\* (copy_variables, copy_elements); the CSV file that is read (file), the
\* one that is written (out), and the locals of the inferring
\* read_from_csv (scan)
vars == <<status, data_variables, data_elements, ret, repacks,
          file, out, scan, copy_variables, copy_elements>>

(* ------------------------------ bounds -------------------------------- *)
MaxRows == 2
MaxVars == 3
MaxSize == 2
\* how many successful remove_var / forge_variable calls a run makes
\* (counted in repacks, which the program does not have)
MaxRepacks == 2
\* the chars of a line of a CSV file, and the data lines of a file
MaxLine == 3
MaxLines == 2

Byte == {0, 1}
Names == {"a", "b", "c"}
\* what callers pass to the DataSet constructor
CreateNames == {"a", "b"}
\* (column a is an explanatory quantitative one, b a categorical response)
CreateKind(id) ==
    IF id = "a" THEN <<"EXPLANATORY", "QUANTITATIVE">>
    ELSE <<"RESPONSE", "CATEGORICAL">>
\* the mut functions callers pass to forge_variable
Transforms == {"copy", "flip"}

(* ------------------------------ DataVar ------------------------------- *)
VarType == {"EXPLANATORY", "RESPONSE", "OTHER"}
DataType == {"CATEGORICAL", "QUANTITATIVE"}

DataVar(id, vt, dt, sz, off) ==
    [identifier |-> id, variable_type |-> vt, data_type |-> dt,
     size |-> sz, offset |-> off]

\* unsigned comparison a > b of two size_t values
UGT(a, b) == IF (a < 0) = (b < 0) THEN a > b ELSE a < 0

RECURSIVE SumSizes(_, _)
SumSizes(vs, n) == IF n = 0 THEN 0 ELSE SumSizes(vs, n - 1) + vs[n].size

compute_elem_size(vs) == SumSizes(vs, Len(vs))

InVars(v, vs) == \E i \in 1..Len(vs) : vs[i] = v

\* index of the first variable named id, 0 for nullptr
get_var_by_id(vs, id) ==
    IF \E i \in 1..Len(vs) : vs[i].identifier = id
    THEN CHOOSE i \in 1..Len(vs) :
            /\ vs[i].identifier = id
            /\ \A j \in 1..(i - 1) : vs[j].identifier # id
    ELSE 0

get_element_size == compute_elem_size(data_variables)

Ret(op, err, arg, val) == [op |-> op, err |-> err, arg |-> arg, val |-> val]

\* the process ends on a fault, and the store with it
Crash(op, arg) ==
    /\ status' = "crashed"
    /\ ret' = Ret(op, "crash", arg, 0)
    /\ data_variables' = << >>
    /\ data_elements' = << >>
    /\ UNCHANGED repacks

(* ------------------------------ DataSet ------------------------------- *)
\* the variable lists callers pass to the constructor: every variable but
\* the last carries its running-sum offset; the last one carries that, or 0,
\* or one byte more
Packed(vs, i) == vs[i].offset = SumSizes(vs, i - 1)

CreateVarSet ==
    { DataVar(id, CreateKind(id)[1], CreateKind(id)[2], sz, off) :
        id \in CreateNames, sz \in 1..MaxSize, off \in 0..(MaxSize + 1) }

CreateLists ==
    {<< >>} \cup
    UNION { { vs \in [1..n -> CreateVarSet] :
                /\ \A i \in 1..(n - 1) : Packed(vs, i)
                /\ vs[n].offset \in {0, SumSizes(vs, n - 1), SumSizes(vs, n - 1) + 1} }
            : n \in 1..(MaxVars - 1) }

\* no file at either path, no second DataSet, no import under way
NoFile == [exists |-> FALSE, lines |-> << >>, eol |-> FALSE]

NoScan == [pc |-> "none"]

Init ==
    /\ status = "none"
    /\ data_variables = <<>>
    /\ data_elements = <<>>
    /\ ret = Ret("none", "none", 0, 0)
    /\ repacks = 0
    /\ file = NoFile
    /\ out = NoFile
    /\ scan = NoScan
    /\ copy_variables = <<>>
    /\ copy_elements = <<>>

\* a call on the DataSet touches nothing else
Elsewhere == UNCHANGED <<file, out, scan, copy_variables, copy_elements>>

DataSet_ctor(vs) ==
    /\ status = "none"
    /\ UNCHANGED repacks
    /\ IF Len(vs) = 0
       THEN /\ ret' = Ret("DataSet", "DataException", vs, 0)
            /\ UNCHANGED <<status, data_variables, data_elements>>
       ELSE /\ status' = "live"
            /\ data_variables' = vs
            /\ data_elements' = <<>>
            /\ ret' = Ret("DataSet", "none", vs, 0)

\* the buffers a caller may hand to append_element / insert_element: of the
\* element size or one byte longer, in two bit patterns (byte positions less
\* than 4 apart differ in one of them)
RowData ==
    { [p \in 1..(get_element_size + extra) |-> (p \div (2 ^ k)) % 2] :
        k \in 0..1, extra \in 0..1 }

\* the row's own buffer: new char[sz], filled with the first sz bytes of dat
DataElement(dat, sz) == [p \in 1..sz |-> dat[p]]

append_element(data) ==
    /\ status = "live"
    /\ Len(data_elements) < MaxRows
    /\ data_elements' =
          Append(data_elements, DataElement(data, get_element_size))
    /\ ret' = Ret("append_element", "none", 0, 0)
    /\ UNCHANGED <<status, data_variables, repacks>>

InsertAt(s, index, e) ==
    [i \in 1..(Len(s) + 1) |->
        IF i <= index THEN s[i] ELSE IF i = index + 1 THEN e ELSE s[i - 1]]

\* index is 0-based; begin() + index is a valid iterator for 0..size only
insert_element(index, data) ==
    /\ status = "live"
    /\ Len(data_elements) < MaxRows
    /\ index \in 0..Len(data_elements)
    /\ data_elements' =
          InsertAt(data_elements, index, DataElement(data, get_element_size))
    /\ ret' = Ret("insert_element", "none", 0, 0)
    /\ UNCHANGED <<status, data_variables, repacks>>

EraseAt(s, index) ==
    [i \in 1..(Len(s) - 1) |-> IF i <= index THEN s[i] ELSE s[i + 1]]

remove_element(index) ==
    /\ status = "live"
    /\ IF index < 0 \/ index >= Len(data_elements)
       THEN /\ ret' = Ret("remove_element", "out_of_range", index, 0)
            /\ UNCHANGED <<status, data_variables, data_elements, repacks>>
       ELSE /\ data_elements' = EraseAt(data_elements, index)
            /\ ret' = Ret("remove_element", "none", index, 0)
            /\ UNCHANGED <<status, data_variables, repacks>>

remove_all ==
    /\ status = "live"
    /\ data_elements' = <<>>
    /\ ret' = Ret("remove_all", "none", 0, 0)
    /\ UNCHANGED <<status, data_variables, repacks>>

\* data_elements[index] without a bounds check: past the end it reads
\* whatever pointer lies there, or faults
get_element(index) ==
    /\ status = "live"
    /\ IF 0 <= index /\ index < Len(data_elements)
       THEN /\ ret' = Ret("get_element", "none", index, index)
            /\ UNCHANGED <<status, data_variables, data_elements, repacks>>
       ELSE \/ /\ ret' = Ret("get_element", "none", index, "garbage")
               /\ UNCHANGED <<status, data_variables, data_elements, repacks>>
            \/ Crash("get_element", index)

Indexes == (0 - 1)..(MaxRows + 1)

(* ---------------------------- remove_var ------------------------------ *)
Shift(d, var) ==
    IF UGT(d.offset, var.offset) THEN [d EXCEPT !.offset = @ - var.size] ELSE d

\* the loop of DataSet.cpp:155-166
NewVariables(vs, var) ==
    LET kept == SelectSeq(vs, LAMBDA d : d # var)
    IN  [i \in 1..Len(kept) |-> Shift(kept[i], var)]

\* byte p of the new buffer is written by a memcpy of DataSet.cpp:171-177:
\* some v of new_variables is found (operator==, offset included) in the old
\* data_variables and covers p; source and destination offsets are then equal
Copied(p, vs, nvs) ==
    \E k \in 1..Len(nvs) :
        /\ InVars(nvs[k], vs)
        /\ nvs[k].offset < p
        /\ p <= nvs[k].offset + nvs[k].size

\* one of those memcpy writes outside new char[new_elem_size]
WritesOutside(vs, nvs) ==
    \E k \in 1..Len(nvs) :
        /\ InVars(nvs[k], vs)
        /\ \/ nvs[k].offset < 0
           \/ nvs[k].offset + nvs[k].size > compute_elem_size(nvs)

\* (the buffer is allocated with the old element size)
Repack_OldSize(old, vs, nvs, g) ==
    [p \in 1..Len(old) |->
        IF Copied(p, vs, nvs) THEN old[p] ELSE IF p \in DOMAIN g THEN g[p] ELSE 0]

\* the row's new buffer; g is what new char[] held before the copies
Repack(old, vs, nvs, g) ==
    [p \in 1..compute_elem_size(nvs) |->
        IF Copied(p, vs, nvs) /\ p <= Len(old) THEN old[p] ELSE g[p]]

remove_var_found(var, op, arg) ==
    LET nvs == NewVariables(data_variables, var)
        n   == compute_elem_size(nvs)
        \* the bytes of a new buffer that no memcpy writes from the old one
        U   == { p \in 1..n :
                   \/ ~Copied(p, data_variables, nvs)
                   \/ \E i \in 1..Len(data_elements) : p > Len(data_elements[i]) }
    IN  \/ /\ repacks < MaxRepacks
           /\ \E g \in [1..Len(data_elements) -> [U -> Byte]] :
                data_elements' =
                    [i \in 1..Len(data_elements) |->
                        Repack(data_elements[i], data_variables, nvs, g[i])]
           /\ data_variables' = nvs
           /\ ret' = Ret(op, "none", arg, var)
           /\ repacks' = repacks + 1
           /\ UNCHANGED status
        \/ /\ Len(data_elements) > 0
           /\ WritesOutside(data_variables, nvs)
           /\ Crash(op, arg)

remove_var(var) ==
    /\ status = "live"
    /\ IF ~InVars(var, data_variables)
       THEN /\ ret' = Ret("remove_var", "DataException", var, 0)
            /\ UNCHANGED <<status, data_variables, data_elements, repacks>>
       ELSE remove_var_found(var, "remove_var", var)

\* remove_var(*get_var_by_id(id)): a null reference when id is absent, read
\* by std::find as soon as there is a variable to compare it with
remove_var_id(id) ==
    LET i == get_var_by_id(data_variables, id)
    IN  /\ status = "live"
        /\ IF i = 0
           THEN IF Len(data_variables) = 0
                THEN /\ ret' = Ret("remove_var_id", "DataException", id, 0)
                     /\ UNCHANGED <<status, data_variables, data_elements, repacks>>
                ELSE Crash("remove_var_id", id)
           ELSE remove_var_found(data_variables[i], "remove_var_id", id)

\* the variables a caller may pass to remove_var: the members, and members
\* with one attribute changed
RemoveArgs ==
    LET members == { data_variables[i] : i \in 1..Len(data_variables) }
    IN  members
        \cup { [v EXCEPT !.identifier = "c"] : v \in members }
        \cup { [v EXCEPT !.size = @ + 1] : v \in members }
        \cup { [v EXCEPT !.data_type = "CATEGORICAL"] : v \in members }
        \cup { [v EXCEPT !.offset = @ + 1] : v \in members }
        \cup { [v EXCEPT !.variable_type = "OTHER"] : v \in members }

(* --------------------------- forge_variable --------------------------- *)
\* the bytes at data + off .. data + off + n - 1; j holds the bytes that lie
\* outside the buffer
ReadField(buf, off, n, j) ==
    [q \in 1..n |-> IF off + q \in 1..Len(buf) THEN buf[off + q] ELSE j[q]]

FieldInside(buf, v) == v.offset >= 0 /\ v.offset + v.size <= Len(buf)

\* the bytes of column v in a row buffer that holds all of them
FieldBytes(buf, v) == [q \in 1..v.size |-> buf[v.offset + q]]

\* the value of type T (tsz bytes) that mut returns for the source field
Mut(m, src, tsz) ==
    [q \in 1..tsz |->
        LET b == src[((q - 1) % Len(src)) + 1]
        IN  IF m = "copy" THEN b ELSE 1 - b]

\* (mut is handed get_raw_data() in place of get_field(mut_id))
ForgeRow_RawData(old, old_element_size, srcvar, m, tsz, jh, jf) ==
    LET field == ReadField(old, 0, srcvar.size, jf)
        head  == ReadField(old, 0, old_element_size, jh)
    IN  head \o Mut(m, field, tsz)

\* jh, jf: the bytes past the end of the old buffer that the two reads meet
ForgeRow(old, old_element_size, srcvar, m, tsz, jh, jf) ==
    LET field == ReadField(old, srcvar.offset, srcvar.size, jf)
        head  == ReadField(old, 0, old_element_size, jh)
    IN  head \o Mut(m, field, tsz)

ForgeVar(new_var_id, srcvar, tsz, old_element_size) ==
    DataVar(new_var_id, srcvar.variable_type, srcvar.data_type, tsz,
            old_element_size)

\* the possible contents of n bytes of memory, when any of them is read
Memory(n, read) == IF read THEN [1..n -> Byte] ELSE {[q \in 1..n |-> 0]}

forge_variable(new_var_id, mut_id, m, tsz) ==
    LET i   == get_var_by_id(data_variables, mut_id)
        arg == <<new_var_id, mut_id>>
        oes == get_element_size
        rows == 1..Len(data_elements)
    IN  /\ status = "live"
        /\ Len(data_variables) < MaxVars
        /\ IF new_var_id = mut_id \/ i = 0
           THEN /\ ret' = Ret("forge_variable", "DataException", arg, 0)
                /\ UNCHANGED <<status, data_variables, data_elements, repacks>>
           ELSE LET src == data_variables[i]
                    JH  == Memory(oes, \E r \in rows : Len(data_elements[r]) < oes)
                    JF  == Memory(src.size,
                                  \E r \in rows : ~FieldInside(data_elements[r], src))
                IN  /\ repacks < MaxRepacks
                    /\ data_variables' =
                        Append(data_variables, ForgeVar(new_var_id, src, tsz, oes))
                    /\ \E jh \in [rows -> JH], jf \in [rows -> JF] :
                         data_elements' =
                            [r \in rows |->
                                ForgeRow(data_elements[r], oes, src, m, tsz,
                                         jh[r], jf[r])]
                    /\ ret' = Ret("forge_variable", "none", arg, <<m, tsz>>)
                    /\ repacks' = repacks + 1
                    /\ UNCHANGED status

(* ----------------------------- get_field ------------------------------ *)
\* data + set->get_var_by_id(id)->get_offset(); the result is data + val
get_field_id(r, id) ==
    LET i == get_var_by_id(data_variables, id)
    IN  /\ status = "live"
        /\ r \in 1..Len(data_elements)
        /\ IF i = 0
           THEN Crash("get_field_id", <<r, id>>)
           ELSE /\ ret' = Ret("get_field_id", "none", <<r, id>>,
                              data_variables[i].offset)
                /\ UNCHANGED <<status, data_variables, data_elements, repacks>>

get_field_index(r, index) ==
    /\ status = "live"
    /\ r \in 1..Len(data_elements)
    /\ IF index < 0 \/ index >= Len(data_variables)
       THEN /\ ret' = Ret("get_field_index", "out_of_range", <<r, index>>, 0)
            /\ UNCHANGED <<status, data_variables, data_elements, repacks>>
       ELSE LET id == data_variables[index + 1].identifier
                i  == get_var_by_id(data_variables, id)
            IN  /\ ret' = Ret("get_field_index", "none", <<r, index>>,
                              data_variables[i].offset)
                /\ UNCHANGED <<status, data_variables, data_elements, repacks>>

(* ------------------------ get_possible_values ------------------------- *)
\* memcmp(c, d->data, d->get_size()) == 0
SameElement(c, d, n) == \A p \in 1..n : c[p] = d[p]

\* cnt: a row is counted (and its data pushed to col) when no row before it
\* compares equal to it
CountElements(rows, n) ==
    Cardinality({ r \in 1..Len(rows) :
                    \A q \in 1..(r - 1) : ~SameElement(rows[q], rows[r], n) })

get_possible_values(id) ==
    LET i == get_var_by_id(data_variables, id)
        val == IF i = 0 THEN 0
               ELSE IF data_variables[i].data_type = "QUANTITATIVE" THEN 0 - 1
               ELSE CountElements(data_elements, get_element_size)
    IN  /\ status = "live"
        /\ ret' = Ret("get_possible_values", "none", id, val)
        /\ UNCHANGED <<status, data_variables, data_elements, repacks>>

(* -------------------------------- text -------------------------------- *)
\* A std::string is a sequence of char codes.
NUL == 0
Comma == 44
Dot == 46

IsDigit(c) == c \in 48..57

IsSpace(c) == c = 32 \/ c \in 9..13

Least(S) == CHOOSE x \in S : \A y \in S : x <= y

\* the first position from..Len(str) whose char is (is not) a space, and
\* Len(str) + 1 when there is none: where a loop over the string stops
FirstSpace(str, from) ==
    Least({i \in from..Len(str) : IsSpace(str[i])} \cup {Len(str) + 1})

FirstNonSpace(str, from) ==
    Least({i \in from..Len(str) : ~IsSpace(str[i])} \cup {Len(str) + 1})

FirstNonDigit(str, from) ==
    Least({i \in from..Len(str) : ~IsDigit(str[i])} \cup {Len(str) + 1})

\* Helpers::is_number: spaces, then digits and at most one '.', then spaces;
\* num_read counts the digits and the '.'
is_number(str) ==
    LET a    == FirstNonSpace(str, 1)
        b    == FirstSpace(str, a)
        body == a..(b - 1)
    IN  /\ \A i \in body : IsDigit(str[i]) \/ str[i] = Dot
        /\ Cardinality({i \in body : str[i] = Dot}) <= 1
        /\ FirstNonSpace(str, b) = Len(str) + 1
        /\ b - a > 0

\* the tokens that  for (; std::getline(ss, line, ','); ...)  yields: the
\* pieces between commas, without the empty piece after a last comma
RECURSIVE Split(_)
Split(line) ==
    IF Len(line) = 0 THEN << >>
    ELSE LET k == Least({i \in 1..Len(line) : line[i] = Comma}
                          \cup {Len(line) + 1})
         IN  <<SubSeq(line, 1, k - 1)>> \o Split(SubSeq(line, k + 1, Len(line)))

(* ------------------------------ numbers ------------------------------- *)
\* A double is written [m, e] for the double nearest to m / 10^e, m >= 0,
\* with no trailing zero in m when e > 0.  (Signs, exponents, hex digits,
\* inf and nan need characters that the files below do not hold.)
RECURSIVE Normal(_)
Normal(v) ==
    IF v.e > 0 /\ v.m % 10 = 0 THEN Normal([m |-> v.m \div 10, e |-> v.e - 1])
    ELSE IF v.m = 0 THEN [m |-> 0, e |-> 0] ELSE v

\* the number that the digits str[i..j] spell after the digits before gave acc
RECURSIVE DigitsValue(_, _, _, _)
DigitsValue(str, i, j, acc) ==
    IF i > j THEN acc ELSE DigitsValue(str, i + 1, j, 10 * acc + (str[i] - 48))

\* std::stod: the longest prefix  spaces digits [. digits]  with a digit in
\* it; std::invalid_argument when there is none
stod(str) ==
    LET a  == FirstNonSpace(str, 1)
        d1 == FirstNonDigit(str, a)
        d2 == IF d1 <= Len(str) /\ str[d1] = Dot
              THEN FirstNonDigit(str, d1 + 1) ELSE d1
        int == DigitsValue(str, a, d1 - 1, 0)
        all == IF d2 > d1 THEN DigitsValue(str, d1 + 1, d2 - 1, int) ELSE int
        e   == IF d2 > d1 THEN d2 - d1 - 1 ELSE 0
    IN  IF (d1 - a) + e = 0
        THEN [err |-> "invalid_argument", val |-> [m |-> 0, e |-> 0]]
        ELSE [err |-> "none", val |-> Normal([m |-> all, e |-> e])]

RECURSIVE DigitsOf(_)
DigitsOf(m) ==
    IF m < 10 THEN <<48 + m>> ELSE Append(DigitsOf(m \div 10), 48 + (m % 10))

\* the precision of a std::ofstream that nobody has set
Precision == 6

\* v rounded to Precision significant digits
Rounded(v) ==
    LET k == Len(DigitsOf(v.m)) - Precision
    IN  IF k <= 0 THEN v
        ELSE Normal([m |-> (v.m + 5 * 10 ^ (k - 1)) \div (10 ^ k),
                     e |-> v.e - k])

\* file << double, for 0 and for 0.0001 <= v < 1000000, where the default
\* floatfield writes fixed notation without trailing zeros
FormatDouble(v) ==
    LET r == Rounded(v)
        D == DigitsOf(r.m)
    IN  IF r.e = 0 THEN D
        ELSE IF Len(D) > r.e
             THEN SubSeq(D, 1, Len(D) - r.e) \o <<Dot>>
                  \o SubSeq(D, Len(D) - r.e + 1, Len(D))
             ELSE <<48, Dot>> \o [i \in 1..(r.e - Len(D)) |-> 48] \o D

\* sizeof(QUANT_TYPE), QUANT_TYPE = DFLT_QUANT_TYPE = double
SizeofQuant == 8

\* the bytes of a double in a row buffer: the model keeps the value in the
\* first two cells of the eight, so that equal bytes mean equal doubles
DoubleBytes(v) ==
    [q \in 1..SizeofQuant |-> IF q = 1 THEN v.m ELSE IF q = 2 THEN v.e ELSE 0]

\* *(QUANT_TYPE*)field
DoubleAt(bytes) == [m |-> bytes[1], e |-> bytes[2]]

(* -------------------------------- files ------------------------------- *)
\* A text file is its lines, without their '\n', and whether a '\n' follows
\* the last of them.
File(lines, eol) == [exists |-> TRUE, lines |-> lines, eol |-> eol]

\* A std::ifstream on it: pos is the line the next getline reads, eof is
\* eofbit.
Opened == [pos |-> 1, eof |-> FALSE, line |-> << >>]

\* std::getline(file, line): eofbit is set when the end of the file is met
\* before a '\n', that is by the read of an unterminated last line and by
\* every read after the last line
getline(f, s) ==
    IF s.eof \/ s.pos > Len(f.lines)
    THEN [pos |-> s.pos, eof |-> TRUE, line |-> << >>]
    ELSE [pos |-> s.pos + 1,
          eof |-> (s.pos = Len(f.lines) /\ ~f.eol),
          line |-> f.lines[s.pos]]

(* --------------- read_from_csv(path, var_template, skip) -------------- *)
Thrown(err, msg) == [err |-> err, msg |-> msg]

NoThrow == Thrown("none", "")

\* what the body of the token loop throws for token i (1-based)
TokenError(tok, i, vs) ==
    IF i > Len(vs) THEN Thrown("DataIOException", "too many fields")
    ELSE IF vs[i].data_type = "QUANTITATIVE"
         THEN IF stod(tok).err # "none" THEN Thrown(stod(tok).err, "stod")
              ELSE IF SizeofQuant # vs[i].size
                   THEN Thrown("DataIOException", "size mismatch")
                   ELSE NoThrow
         ELSE NoThrow

\* what the processing of one line throws: the first throw of the token
\* loop, or the check of the count after it
RecordError(tokens, vs) ==
    LET bad == { i \in 1..Len(tokens) : TokenError(tokens[i], i, vs).err # "none" }
    IN  IF bad # {} THEN TokenError(tokens[Least(bad)], Least(bad), vs)
        ELSE IF Len(tokens) # Len(vs)
             THEN Thrown("DataIOException", "too few fields")
             ELSE NoThrow

\* the bytes memcpy'd for one token: the double, or the first size bytes of
\* the token padded with '\0' up to size
EncodeField(tok, v) ==
    IF v.data_type = "QUANTITATIVE" THEN DoubleBytes(stod(tok).val)
    ELSE [q \in 1..v.size |-> IF q <= Len(tok) THEN tok[q] ELSE NUL]

\* char* data = new char[elem_sz] after the token loop: byte p holds what the
\* last field copied over it left there, and what new char[] held (g) when
\* no field covers it
RowBuffer(tokens, vs, g) ==
    [p \in 1..compute_elem_size(vs) |->
        LET W == { i \in 1..Len(vs) :
                     vs[i].offset < p /\ p <= vs[i].offset + vs[i].size }
        IN  IF W = {} THEN g[p]
            ELSE LET i == CHOOSE i \in W : \A j \in W : j <= i
                 IN  EncodeField(tokens[i], vs[i])[p - vs[i].offset]]

\* the while (!file.eof()) loop, entered after a getline that gave s, with
\* the rows appended so far
RECURSIVE ReadRows(_, _, _, _, _)
ReadRows(f, s, vs, g, rows) ==
    IF s.eof THEN [thrown |-> NoThrow, rows |-> rows]
    ELSE LET tokens == Split(s.line)
             e      == RecordError(tokens, vs)
         IN  IF e.err # "none" THEN [thrown |-> e, rows |-> << >>]
             ELSE ReadRows(f, getline(f, s), vs, g,
                     Append(rows,
                            DataElement(RowBuffer(tokens, vs, g[Len(rows) + 1]),
                                        compute_elem_size(vs))))

\* the DataSet* it returns (vars, rows), or what it throws
read_from_csv(f, var_template, skip_first, g) ==
    IF ~f.exists
    THEN [thrown |-> Thrown("DataIOException", "open"), vars |-> << >>, rows |-> << >>]
    ELSE IF Len(var_template) = 0
    THEN [thrown |-> Thrown("DataException", "too few variables"),
          vars |-> << >>, rows |-> << >>]
    ELSE LET s0 == IF skip_first THEN getline(f, Opened) ELSE Opened
             r  == ReadRows(f, getline(f, s0), var_template, g, << >>)
         IN  [thrown |-> r.thrown,
              vars |-> IF r.thrown.err = "none" THEN var_template ELSE << >>,
              rows |-> r.rows]

\* what new char[elem_sz] may hold, for each of the rows of a file: it shows
\* only where the template leaves a byte of the row to no field
Uncovered(vs) ==
    \E p \in 1..compute_elem_size(vs) :
        \A i \in 1..Len(vs) : ~(vs[i].offset < p /\ p <= vs[i].offset + vs[i].size)

Buffers(f, vs) ==
    [1..Len(f.lines) -> Memory(compute_elem_size(vs), Uncovered(vs))]

\* the files callers hand to read_from_csv: a header ("a" or "a,b") and up
\* to MaxLines lines over  1 q ,  with or without a '\n' after the last
\* line; and the file of no bytes
Alphabet == {49, 113, Comma}

Lines == UNION { [1..n -> Alphabet] : n \in 0..MaxLine }

NameA == <<97>>
NameB == <<98>>

HeaderLines == { NameA, NameA \o <<Comma>> \o NameB }

\* (the same bytes are one file: a file that does not end in '\n' has a last
\* line of at least one char)
Canonical(f) ==
    IF f.eol \/ Len(f.lines) = 0 THEN TRUE ELSE Len(f.lines[Len(f.lines)]) > 0

Files ==
    { File(<< >>, FALSE) } \cup
    { f \in { File(<<h>> \o d, eol) :
                h \in HeaderLines,
                d \in UNION { [1..n -> Lines] : n \in 0..MaxLines },
                eol \in BOOLEAN } : Canonical(f) }

\* files of the same shape whose lines are over  1 . ,
NumberLines == UNION { [1..n -> {49, Dot, Comma}] : n \in 0..MaxLine }

NumberFiles ==
    { f \in { File(<<h>> \o d, eol) :
                h \in HeaderLines,
                d \in UNION { [1..n -> NumberLines] : n \in 0..MaxLines },
                eol \in BOOLEAN } : Canonical(f) }

\* the templates callers pass with them: offsets are the running sums; one
\* categorical column of two bytes, one double, a double and a categorical,
\* and a quantitative column declared four bytes wide
ImportTemplates ==
    { <<DataVar(NameA, "RESPONSE", "CATEGORICAL", 2, 0)>>,
      <<DataVar(NameA, "EXPLANATORY", "QUANTITATIVE", SizeofQuant, 0)>>,
      <<DataVar(NameA, "EXPLANATORY", "QUANTITATIVE", SizeofQuant, 0),
        DataVar(NameB, "RESPONSE", "CATEGORICAL", 2, SizeofQuant)>>,
      <<DataVar(NameA, "EXPLANATORY", "QUANTITATIVE", 4, 0)>> }

\* somebody writes the file that is read
Provide(f) ==
    /\ status = "none"
    /\ ~file.exists
    /\ file' = f
    /\ UNCHANGED <<status, data_variables, data_elements, ret, repacks,
                   out, scan, copy_variables, copy_elements>>

\* ds = DataSet::read_from_csv(path, var_template, skip_first), the first
\* call of a run, once the file is there: the DataSet it returns is the
\* DataSet of the model
Import(var_template, skip_first) ==
    /\ status = "none"
    /\ ret.op = "none"
    /\ file.exists
    /\ \E g \in Buffers(file, var_template) :
         LET r == read_from_csv(file, var_template, skip_first, g)
         IN  /\ ret' = Ret("read_from_csv", r.thrown.err,
                           <<var_template, skip_first>>, r.thrown.msg)
             /\ IF r.thrown.err = "none"
                THEN /\ status' = "live"
                     /\ data_variables' = r.vars
                     /\ data_elements' = r.rows
                ELSE UNCHANGED <<status, data_variables, data_elements>>
    /\ UNCHANGED <<repacks, file, out, scan, copy_variables, copy_elements>>

(* ---------------------- read_from_csv(path) --------------------------- *)
\* The inferring overload, one step per token.  scan holds its locals: vars,
\* the stream (s: position, eofbit and the line last read), the tokens that
\* ess still holds, cnt, and pc, the place in the code; restarts counts the
\* seekg(0) calls (the program keeps no such count).
Undetermined == 0 - 1

HeaderVars(line) ==
    [i \in 1..Len(Split(line)) |->
        DataVar(Split(line)[i], "EXPLANATORY", "QUANTITATIVE", Undetermined, 0)]

\* lines 282-302: open, read the header, read the first data line
infer_header ==
    /\ status = "none"
    /\ ret.op = "none"
    /\ file.exists
    /\ scan.pc = "none"
    /\ LET h == getline(file, Opened)
       IN  scan' = [pc |-> "while", vars |-> HeaderVars(h.line),
                    s |-> getline(file, h), ess |-> << >>, cnt |-> 0,
                    restarts |-> 0]
    /\ UNCHANGED <<status, data_variables, data_elements, ret, repacks,
                   file, out, copy_variables, copy_elements>>

InferFrame ==
    UNCHANGED <<status, data_variables, data_elements, ret, repacks,
                file, out, copy_variables, copy_elements>>

InferThrow(msg) ==
    /\ scan' = [scan EXCEPT !.pc = "thrown"]
    /\ ret' = Ret("read_from_csv", "DataIOException", 0, msg)
    /\ UNCHANGED <<status, data_variables, data_elements, repacks,
                   file, out, copy_variables, copy_elements>>

\* line 303-306: while (!file.eof()) { cnt = 0; ess(line);
infer_while ==
    /\ scan.pc = "while"
    /\ scan' = IF scan.s.eof THEN [scan EXCEPT !.pc = "finalize"]
               ELSE [scan EXCEPT !.pc = "for", !.cnt = 0,
                                 !.ess = Split(scan.s.line)]
    /\ InferFrame

\* lines 307, 338-340: ess has no more tokens
infer_end_of_line ==
    /\ scan.pc = "for"
    /\ Len(scan.ess) = 0
    /\ IF scan.cnt < Len(scan.vars)
       THEN InferThrow("too few fields")
       ELSE /\ scan' = [scan EXCEPT !.pc = "while", !.s = getline(file, scan.s)]
            /\ InferFrame

\* the token that the loop condition of line 307 has just read
Token == Head(scan.ess)

Column == scan.vars[scan.cnt + 1]

Advance(sc) == [sc EXCEPT !.cnt = @ + 1, !.ess = Tail(@)]

\* lines 309-310
infer_too_many ==
    /\ scan.pc = "for"
    /\ Len(scan.ess) > 0
    /\ scan.cnt >= Len(scan.vars)
    /\ InferThrow("too many fields")

\* lines 311-315
infer_number ==
    /\ scan.pc = "for"
    /\ Len(scan.ess) > 0
    /\ scan.cnt < Len(scan.vars)
    /\ is_number(Token) /\ Column.data_type = "QUANTITATIVE"
    /\ scan' = Advance(IF Column.size = Undetermined
                       THEN [scan EXCEPT !.vars[scan.cnt + 1].size = SizeofQuant]
                       ELSE scan)
    /\ InferFrame

\* (the demoted column stays QUANTITATIVE)
Demoted_KeepsType(v) == [v EXCEPT !.size = Undetermined]

\* lines 320-321
Demoted(v) == [v EXCEPT !.data_type = "CATEGORICAL", !.size = Undetermined]

\* lines 318-330: the column was taken for numbers; back to the first data
\* line, cnt = -1 and ++cnt
infer_demote ==
    /\ scan.pc = "for"
    /\ Len(scan.ess) > 0
    /\ scan.cnt < Len(scan.vars)
    /\ ~(is_number(Token) /\ Column.data_type = "QUANTITATIVE")
    /\ Column.data_type = "QUANTITATIVE" /\ Column.size # Undetermined
    /\ LET first == getline(file, getline(file, Opened))
       IN  scan' = [scan EXCEPT !.vars[scan.cnt + 1] = Demoted(@),
                                !.s = first,
                                !.ess = Split(first.line),
                                !.cnt = 0,
                                !.restarts = @ + 1]
    /\ InferFrame

\* (the width is that of the token at hand)
Widened_Last(v, tok) ==
    [v EXCEPT !.data_type = "CATEGORICAL", !.size = Len(tok) + 1]

\* (no byte is kept for the terminator)
Widened_NoTerminator(v, tok) ==
    IF v.size = Undetermined \/ UGT(Len(tok), v.size)
    THEN [v EXCEPT !.data_type = "CATEGORICAL", !.size = Len(tok)]
    ELSE v

\* lines 331-335
Widened(v, tok) ==
    IF v.size = Undetermined \/ UGT(Len(tok) + 1, v.size)
    THEN [v EXCEPT !.data_type = "CATEGORICAL", !.size = Len(tok) + 1]
    ELSE v

infer_text ==
    /\ scan.pc = "for"
    /\ Len(scan.ess) > 0
    /\ scan.cnt < Len(scan.vars)
    /\ ~(is_number(Token) /\ Column.data_type = "QUANTITATIVE")
    /\ ~(Column.data_type = "QUANTITATIVE" /\ Column.size # Undetermined)
    /\ scan' = Advance([scan EXCEPT !.vars[scan.cnt + 1] = Widened(@, Token)])
    /\ InferFrame

\* (no check of the sizes)
Unsized_None(vs) == FALSE

\* line 346
Unsized(vs) == \E i \in 1..Len(vs) : vs[i].size = Undetermined

\* lines 343-350: offsets are the running sums of the sizes
Finalized(vs) == [i \in 1..Len(vs) |-> [vs[i] EXCEPT !.offset = SumSizes(vs, i - 1)]]

\* lines 343-353: the sizes are checked, and the file is read again with the
\* variables found; pc tells how far the call came ("undetermined": the throw
\* of line 347, "done": the call of line 353 was made)
infer_finalize ==
    /\ scan.pc = "finalize"
    /\ IF Unsized(scan.vars)
       THEN /\ scan' = [scan EXCEPT !.pc = "undetermined"]
            /\ ret' = Ret("read_from_csv", "DataIOException", 0,
                          "cannot determine variable sizes")
            /\ UNCHANGED <<status, data_variables, data_elements>>
       ELSE \E vs \in {Finalized(scan.vars)} :
            \* (its fields cover the row: what new char[] held never shows)
            \E r \in {read_from_csv(file, vs, TRUE,
                                    [k \in 1..Len(file.lines) |-> << >>])} :
                /\ scan' = [scan EXCEPT !.pc = "done", !.vars = vs]
                /\ ret' = Ret("read_from_csv", r.thrown.err, 0, r.thrown.msg)
                /\ IF r.thrown.err = "none"
                   THEN /\ status' = "live"
                        /\ data_variables' = r.vars
                        /\ data_elements' = r.rows
                   ELSE UNCHANGED <<status, data_variables, data_elements>>
    /\ UNCHANGED <<repacks, file, out, copy_variables, copy_elements>>

(* ---------------------------- write_to_csv ---------------------------- *)
\* the strings of fields, each followed by "," but the last
RECURSIVE Joined(_)
Joined(fields) ==
    IF Len(fields) = 0 THEN << >>
    ELSE IF Len(fields) = 1 THEN fields[1]
    ELSE fields[1] \o <<Comma>> \o Joined(Tail(fields))

\* (the field up to its first '\0')
FieldText_Trimmed(buf, v) ==
    IF v.data_type = "QUANTITATIVE"
    THEN FormatDouble(DoubleAt(FieldBytes(buf, v)))
    ELSE LET b == FieldBytes(buf, v)
             n == Least({q \in 1..Len(b) : b[q] = NUL} \cup {Len(b) + 1})
         IN  SubSeq(b, 1, n - 1)

\* lines 381-389: the double through operator<<, or std::string(field, size):
\* all size bytes of a categorical field
FieldText(buf, v) ==
    IF v.data_type = "QUANTITATIVE"
    THEN FormatDouble(DoubleAt(FieldBytes(buf, v)))
    ELSE FieldBytes(buf, v)

\* the file it writes: the identifiers, then a line per row, each ended by
\* "\n"
write_to_csv(vs, rows) ==
    File(<<Joined([i \in 1..Len(vs) |-> vs[i].identifier])>>
           \o [r \in 1..Len(rows) |->
                 Joined([i \in 1..Len(vs) |-> FieldText(rows[r], vs[i])])],
         TRUE)

Export ==
    /\ status = "live"
    /\ ~out.exists
    /\ out' = write_to_csv(data_variables, data_elements)
    /\ ret' = Ret("write_to_csv", "none", 0, 0)
    /\ UNCHANGED <<status, data_variables, data_elements, repacks,
                   file, scan, copy_variables, copy_elements>>

(* --------------------- DataSet(const DataSet&) ------------------------ *)
\* A row of the second DataSet is a DataElement of its own (alias = 0, data
\* its buffer), or the very DataElement that is row alias of the first
\* DataSet: what it holds is then whatever that row holds.
Own(buf) == [alias |-> 0, data |-> buf]

\* (the pointer de is pushed, not a new element)
CopyElement_Shared(de, k, sz) == [alias |-> k, data |-> de]

\* DataElement* ne = new DataElement(*de): new char[d_size] and a memcpy of
\* d_size bytes, d_size the element size of the DataSet that de is in
CopyElement(de, k, sz) == Own(DataElement(de, sz))

\* the bytes of the rows of a second DataSet ce beside a first with rows de
RowsOf(ce, de) ==
    [k \in 1..Len(ce) |->
        IF ce[k].alias = 0 THEN ce[k].data
        ELSE IF ce[k].alias <= Len(de) THEN de[ce[k].alias] ELSE << >>]

\* DataSet copy(ds) (op = "copy"), and  copy = ds  for a copy that exists
\* (op = "assign": the rows it had are left on the heap)
Copy(op) ==
    /\ status = "live"
    /\ (op = "copy") = (Len(copy_variables) = 0)
    /\ copy_variables' = data_variables
    /\ copy_elements' =
          [k \in 1..Len(data_elements) |->
              CopyElement(data_elements[k], k, get_element_size)]
    /\ ret' = Ret(op, "none", 0, 0)
    /\ UNCHANGED <<status, data_variables, data_elements, repacks,
                   file, out, scan>>

\* the calls that follow are made on the other of the two DataSets
Other ==
    /\ status = "live"
    /\ Len(copy_variables) > 0
    /\ \A k \in 1..Len(copy_elements) : copy_elements[k].alias = 0
    /\ data_variables' = copy_variables
    /\ data_elements' = [k \in 1..Len(copy_elements) |-> copy_elements[k].data]
    /\ copy_variables' = data_variables
    /\ copy_elements' = [k \in 1..Len(data_elements) |-> Own(data_elements[k])]
    /\ ret' = Ret("other", "none", 0, 0)
    /\ UNCHANGED <<status, repacks, file, out, scan>>

\* the variable lists of the DataSets that are copied: one or two one-byte
\* variables of different names, at their running-sum offsets
CopyLists ==
    { vs \in CreateLists :
        /\ Len(vs) >= 1
        /\ \A i \in 1..Len(vs) : Packed(vs, i) /\ vs[i].size = 1
        /\ \A i, j \in 1..Len(vs) : i # j => vs[i].identifier # vs[j].identifier }

(* ------------------------- export and re-import ---------------------- *)
\* the doubles and the chars that callers put into the rows they append to a
\* DataSet of text columns:  1, 1.1 and 1234.567;  'q', '1' and '\0'
QuantValues == { [m |-> 1, e |-> 0], [m |-> 11, e |-> 1], [m |-> 1234567, e |-> 3] }

TextBytes == {113, 49, NUL}

TextTemplates == { vs \in ImportTemplates : \A i \in 1..Len(vs) :
                      vs[i].data_type = "QUANTITATIVE" => vs[i].size = SizeofQuant }

FieldValues(v) ==
    IF v.data_type = "QUANTITATIVE" THEN { DoubleBytes(x) : x \in QuantValues }
    ELSE [1..v.size -> TextBytes]

\* the buffers of such rows, for the (packed) variables of the DataSet
TextRowData ==
    LET vs == data_variables
        choices == { ch \in [1..Len(vs) ->
                               UNION { FieldValues(vs[i]) : i \in 1..Len(vs) }] :
                       \A i \in 1..Len(vs) : ch[i] \in FieldValues(vs[i]) }
    IN  { [p \in 1..compute_elem_size(vs) |->
             LET i == CHOOSE i \in 1..Len(vs) :
                         vs[i].offset < p /\ p <= vs[i].offset + vs[i].size
             IN  ch[i][p - vs[i].offset]] : ch \in choices }

\* copy = DataSet::read_from_csv(out, ds.data_variables, true): the file
\* that write_to_csv wrote is read with the variables of the DataSet that was
\* written, into a second DataSet
Reimport ==
    /\ status = "live"
    /\ out.exists
    /\ ret.op = "write_to_csv"
    /\ \E g \in Buffers(out, data_variables) :
       \E r \in {read_from_csv(out, data_variables, TRUE, g)} :
         /\ ret' = Ret("read_from_csv", r.thrown.err, 0, r.thrown.msg)
         /\ copy_variables' = r.vars
         /\ copy_elements' = [k \in 1..Len(r.rows) |-> Own(r.rows[k])]
    /\ UNCHANGED <<status, data_variables, data_elements, repacks,
                   file, out, scan>>

(* --------------------------- specifications --------------------------- *)
Create == \E vs \in CreateLists : DataSet_ctor(vs)

Members == { data_variables[i] : i \in 1..Len(data_variables) }

MemberNames == { v.identifier : v \in Members }

RowIndexes == 0..(Len(data_elements) - 1)

\* the store under every sequence of successful mutating calls
Next ==
    \/ Create /\ Elsewhere
    \/ \E data \in RowData : append_element(data) /\ Elsewhere
    \/ \E index \in 0..MaxRows : \E data \in RowData :
          insert_element(index, data) /\ Elsewhere
    \/ \E index \in RowIndexes : remove_element(index) /\ Elsewhere
    \/ remove_all /\ Elsewhere
    \/ \E var \in Members : remove_var(var) /\ Elsewhere
    \/ \E id \in MemberNames : remove_var_id(id) /\ Elsewhere
    \/ \E new_var_id \in Names, m \in Transforms, tsz \in 1..MaxSize :
          \E mut_id \in MemberNames \ {new_var_id} :
             forge_variable(new_var_id, mut_id, m, tsz) /\ Elsewhere

Spec == Init /\ [][Next]_vars

\* a store as constructed and filled, under calls with every argument:
\* absent names, variables that are not members, indexes out of range
NextAccess ==
    \/ Create /\ Elsewhere
    \/ \E data \in RowData : append_element(data) /\ Elsewhere
    \/ \E index \in Indexes : remove_element(index) /\ Elsewhere
    \/ \E index \in Indexes : get_element(index) /\ Elsewhere
    \/ \E r \in 1..MaxRows, id \in Names : get_field_id(r, id) /\ Elsewhere
    \/ \E r \in 1..MaxRows, index \in Indexes :
          get_field_index(r, index) /\ Elsewhere
    \/ \E var \in RemoveArgs : repacks = 0 /\ remove_var(var) /\ Elsewhere
    \/ \E id \in Names : repacks = 0 /\ remove_var_id(id) /\ Elsewhere
    \/ \E new_var_id \in Names, mut_id \in Names, m \in Transforms, tsz \in 1..MaxSize :
          repacks = 0 /\ forge_variable(new_var_id, mut_id, m, tsz) /\ Elsewhere

SpecAccess == Init /\ [][NextAccess]_vars

\* a store as constructed and filled, asked for the possible values of
\* its variables and of names it does not have
NextValues ==
    \/ Create /\ Elsewhere
    \/ \E data \in RowData : append_element(data) /\ Elsewhere
    \/ \E index \in RowIndexes : remove_element(index) /\ Elsewhere
    \/ \E id \in Names : get_possible_values(id) /\ Elsewhere

SpecValues == Init /\ [][NextValues]_vars

\* variable lists at running-sum offsets, of any names and of sizes from 0
\* (the DataVar constructor takes every size_t)
DropLists ==
    UNION { { vs \in [1..n -> { DataVar(id, CreateKind(id)[1], CreateKind(id)[2],
                                        sz, off) :
                                  id \in CreateNames, sz \in 0..MaxSize,
                                  off \in 0..(MaxVars * MaxSize) }] :
                \A i \in 1..n : Packed(vs, i) }
            : n \in 1..MaxVars }

\* a DataSet of packed variables is built and filled, and variables are removed
NextDrop ==
    \/ \E vs \in DropLists : DataSet_ctor(vs) /\ Elsewhere
    \/ \E data \in RowData : append_element(data) /\ Elsewhere
    \/ \E var \in Members : remove_var(var) /\ Elsewhere
    \/ \E id \in MemberNames : remove_var_id(id) /\ Elsewhere

SpecDrop == Init /\ [][NextDrop]_vars

\* read_from_csv with a template, on every file of Files
NextImport ==
    \/ ~file.exists /\ \E f \in Files : Provide(f)
    \/ \E var_template \in ImportTemplates, skip_first \in BOOLEAN :
          Import(var_template, skip_first)

SpecImport == Init /\ [][NextImport]_vars

\* a DataSet and its copy, under calls on either of them
NextCopy ==
    \/ \E vs \in CopyLists : DataSet_ctor(vs) /\ Elsewhere
    \/ \E data \in RowData : append_element(data) /\ Elsewhere
    \/ \E index \in 0..MaxRows : \E data \in RowData :
          insert_element(index, data) /\ Elsewhere
    \/ \E index \in RowIndexes : remove_element(index) /\ Elsewhere
    \/ remove_all /\ Elsewhere
    \/ \E id \in MemberNames : remove_var_id(id) /\ Elsewhere
    \/ \E new_var_id \in Names, m \in Transforms :
          \E mut_id \in MemberNames \ {new_var_id} :
             forge_variable(new_var_id, mut_id, m, 1) /\ Elsewhere
    \/ Copy("copy")
    \/ Copy("assign")
    \/ Other

SpecCopy == Init /\ [][NextCopy]_vars

\* every buffer of the element size a caller may hand to append_element
ElementData == [1..get_element_size -> Byte]

\* variable lists of two or more one-byte variables of one kind and of
\* different names, at their running-sum offsets
RedoLists ==
    UNION { { vs \in [1..n -> { DataVar(id, "EXPLANATORY", "CATEGORICAL", 1, off) :
                                  id \in Names, off \in 0..(n - 1) }] :
                /\ \A i \in 1..n : Packed(vs, i)
                /\ \A i, j \in 1..n : i # j => vs[i].identifier # vs[j].identifier }
            : n \in 2..MaxVars }

\* a DataSet is built and filled, a copy of it is kept, a variable is removed
\* and a variable is forged
NextRedo ==
    \/ \E vs \in RedoLists : DataSet_ctor(vs) /\ Elsewhere
    \/ /\ Len(copy_variables) = 0
       /\ \E data \in ElementData : append_element(data) /\ Elsewhere
    \/ Len(data_elements) > 0 /\ Copy("copy")
    \/ /\ Len(copy_variables) > 0
       /\ repacks = 0
       /\ \E id \in MemberNames : remove_var_id(id) /\ Elsewhere
    \/ /\ repacks = 1
       /\ \E new_var_id \in Names, m \in Transforms, tsz \in 1..MaxSize :
            \E mut_id \in MemberNames :
               forge_variable(new_var_id, mut_id, m, tsz) /\ Elsewhere

SpecRedo == Init /\ [][NextRedo]_vars

\* a DataSet of text columns is built, filled, written and read back
NextRoundTrip ==
    \/ \E vs \in TextTemplates : DataSet_ctor(vs) /\ Elsewhere
    \/ \E data \in TextRowData : append_element(data) /\ Elsewhere
    \/ Export
    \/ Reimport

SpecRoundTrip == Init /\ [][NextRoundTrip]_vars

\* read_from_csv without a template, on every file of Files, and the export
\* of the DataSet it returns
\* the steps of the scan loop (lines 303-341)
ScanStep ==
    \/ infer_while
    \/ infer_end_of_line
    \/ infer_too_many
    \/ infer_number
    \/ infer_demote
    \/ infer_text

NextInfer ==
    \/ ~file.exists /\ \E f \in Files : Provide(f)
    \/ infer_header
    \/ ScanStep
    \/ infer_finalize
    \/ Export

SpecInfer == Init /\ [][NextInfer]_vars

\* a scan that has begun is not left half-way: the program goes on to the
\* next statement of the loop
SpecInferFair == SpecInfer /\ WF_vars(ScanStep)

\* read_from_csv without a template, on every file of NumberFiles
NextNumbers ==
    \/ ~file.exists /\ \E f \in NumberFiles : Provide(f)
    \/ infer_header
    \/ ScanStep
    \/ infer_finalize

SpecNumbers == Init /\ [][NextNumbers]_vars

(* ------------------------------- claims ------------------------------- *)
store == <<data_variables, data_elements>>

IsPacked(vs) == \A i \in 1..Len(vs) : vs[i].offset = SumSizes(vs, i - 1)

UniqueNames(vs) ==
    \A i, j \in 1..Len(vs) : i # j => vs[i].identifier # vs[j].identifier

\* a schema as the specification describes one
WellFormed(vs) == Len(vs) >= 1 /\ IsPacked(vs) /\ UniqueNames(vs)

\* C1: in every state of a live store, under any sequence of append, insert,
\* remove, clear, drop_column and derive_column calls (with transforms that
\* return), every row buffer is exactly get_element_size() bytes long.
C1_RowLength ==
    status = "live" =>
        \A r \in 1..Len(data_elements) :
            Len(data_elements[r]) = compute_elem_size(data_variables)

\* a store with rows that has been through a derive_column and then a
\* drop_column that left two columns
C1_Witness ==
    /\ status = "live"
    /\ ret.op = "remove_var"
    /\ ret.err = "none"
    /\ repacks = 2
    /\ Len(data_variables) = 2
    /\ Len(data_elements) = 2

\* C2: in every live store each variable's offset is the sum of the sizes of
\* the variables before it (the constructor having replaced the offsets it
\* was given).
C2_PackedOffsets == status = "live" => IsPacked(data_variables)

\* C3: a successful drop_column on a store with a packed schema of distinct
\* names leaves, in every row, the bytes of every surviving column unchanged:
\* the k-th surviving column's bytes at its new offset in the new buffer are
\* its bytes at its old offset in the old one.
Survivors(vs, var) ==
    SelectSeq([i \in 1..Len(vs) |-> i], LAMBDA i : vs[i] # var)

C3_DropKeepsFields ==
    [][ ( /\ ret'.op \in {"remove_var", "remove_var_id"}
          /\ ret'.err = "none"
          /\ WellFormed(data_variables) ) =>
          LET surv == Survivors(data_variables, ret'.val)
          IN  /\ Len(data_variables') = Len(surv)
              /\ Len(data_elements') = Len(data_elements)
              /\ \A r \in 1..Len(data_elements) : \A k \in 1..Len(surv) :
                    LET old == data_variables[surv[k]]
                        new == data_variables'[k]
                    IN  (/\ FieldInside(data_elements[r], old)
                         /\ FieldInside(data_elements'[r], new))
                        => FieldBytes(data_elements'[r], new)
                             = FieldBytes(data_elements[r], old) ]_vars

\* C4: in every live store the column names are pairwise distinct.
C4_UniqueNames == status = "live" => UniqueNames(data_variables)

\* C5: in every live store the schema has at least one variable.
C5_NonEmptySchema == status = "live" => Len(data_variables) >= 1

\* C6: on a store with a packed schema of distinct names, derive_column
\* fails with an exception, leaving schema and rows as they were, whenever the
\* new name is the source name or the name of a column already in the schema.
C6_NameConflict ==
    [][ ( /\ ret'.op = "forge_variable"
          /\ WellFormed(data_variables)
          /\ \/ ret'.arg[1] = ret'.arg[2]
             \/ ret'.arg[1] \in MemberNames )
        => (ret'.err = "DataException" /\ UNCHANGED store) ]_vars

\* C7: drop_column fails with an exception, leaving schema and rows as they
\* were, when called with a name no column has, and when called with a
\* variable that is not a member of the schema under operator==.
C7_DropNotFound ==
    [][ ( \/ ret'.op = "remove_var_id" /\ ret'.arg \notin MemberNames
          \/ ret'.op = "remove_var" /\ ~InVars(ret'.arg, data_variables) )
        => (ret'.err = "DataException" /\ UNCHANGED store) ]_vars

\* C8: get(index) and remove_at(index) fail with out_of_range for every index
\* outside 0..row_count-1, field(row, index) for every index outside
\* 0..column_count-1, each leaving the store unchanged; each succeeds for
\* index 0 on a non-empty store / schema.
C8_IndexOutOfRange ==
    [][ /\ ( /\ ret'.op \in {"get_element", "remove_element"}
             /\ (ret'.arg < 0 \/ ret'.arg >= Len(data_elements)) )
           => (ret'.err = "out_of_range" /\ UNCHANGED <<status, store>>)
        /\ ( /\ ret'.op = "get_field_index"
             /\ (ret'.arg[2] < 0 \/ ret'.arg[2] >= Len(data_variables)) )
           => (ret'.err = "out_of_range" /\ UNCHANGED <<status, store>>)
        /\ ( /\ ret'.op \in {"get_element", "remove_element"}
             /\ ret'.arg = 0
             /\ Len(data_elements) > 0 )
           => ret'.err = "none"
        /\ ( /\ ret'.op = "get_field_index"
             /\ ret'.arg[2] = 0
             /\ Len(data_variables) > 0 )
           => ret'.err = "none" ]_vars

\* C9: field(row, name) fails with an exception, the store unchanged, when no
\* column has that name.
C9_FieldNotFound ==
    [][ (ret'.op = "get_field_id" /\ ret'.arg[2] \notin MemberNames)
        => (ret'.err = "DataException" /\ UNCHANGED <<status, store>>) ]_vars

\* C10: a successful derive_column appends one variable, named as asked, at
\* offset = the old element size, with the source column's variable_type and
\* data_type and size sizeof(T); every earlier variable is unchanged; and in
\* every row each earlier column keeps its bytes while the new column holds
\* mut(the row's source-column bytes).
C10_ForgeAdditive ==
    [][ (ret'.op = "forge_variable" /\ ret'.err = "none") =>
          LET n   == Len(data_variables)
              src == data_variables[get_var_by_id(data_variables, ret'.arg[2])]
              new == data_variables'[n + 1]
              m   == ret'.val[1]
              tsz == ret'.val[2]
          IN  /\ Len(data_variables') = n + 1
              /\ \A k \in 1..n : data_variables'[k] = data_variables[k]
              /\ new.identifier = ret'.arg[1]
              /\ new.offset = compute_elem_size(data_variables)
              /\ new.size = tsz
              /\ new.variable_type = src.variable_type
              /\ new.data_type = src.data_type
              /\ Len(data_elements') = Len(data_elements)
              /\ \A r \in 1..Len(data_elements) :
                    /\ \A k \in 1..n :
                          FieldInside(data_elements[r], data_variables[k])
                          => FieldBytes(data_elements'[r], data_variables[k])
                               = FieldBytes(data_elements[r], data_variables[k])
                    /\ FieldInside(data_elements[r], src)
                       => FieldBytes(data_elements'[r], new)
                            = Mut(m, FieldBytes(data_elements[r], src), tsz) ]_vars

\* a packed two-row store just after deriving a column from a source that is
\* not the first column, by a transform that changes the bytes
C10_Witness ==
    /\ status = "live"
    /\ ret.op = "forge_variable"
    /\ ret.err = "none"
    /\ ret.val[1] = "flip"
    /\ Len(data_elements) = 2
    /\ Len(data_variables) = 3
    /\ IsPacked(data_variables)
    /\ ret.arg[2] = data_variables[2].identifier
    /\ ret.arg[2] # data_variables[1].identifier

\* the data records of a file read with skip_first: the lines after the
\* header that hold at least one char, in file order
DataRecords(f, skip_first) ==
    SelectSeq(SubSeq(f.lines, IF skip_first THEN 2 ELSE 1, Len(f.lines)),
              LAMBDA l : Len(l) > 0)

\* C14: a schema-given import of a file with a data record of fewer, or of
\* more, tokens than the template has columns throws, and returns no store.
C14_MalformedRecord ==
    ( /\ ret.op = "read_from_csv"
      /\ \E k \in DOMAIN DataRecords(file, ret.arg[2]) :
            Len(Split(DataRecords(file, ret.arg[2])[k])) # Len(ret.arg[1]) )
    => (ret.err # "none" /\ status = "none")

\* C15: a schema-given import that returns a store returns one row per data
\* record, in file order, whether or not a '\n' ends the file: row i holds the
\* encoded tokens of record i.
C15_RowPerRecord ==
    ( ret.op = "read_from_csv" /\ ret.err = "none" ) =>
        LET recs == DataRecords(file, ret.arg[2])
            vs   == ret.arg[1]
        IN  /\ Len(data_elements) = Len(recs)
            /\ \A i \in 1..Len(recs) :
                  data_elements[i] =
                      [p \in 1..compute_elem_size(vs) |->
                          RowBuffer(Split(recs[i]), vs, data_elements[i])[p]]

\* the data lines that the scan loop of the inferring import processes, and
\* the tokens of column c in them
ScannedLines(f) ==
    SubSeq(f.lines, 2, IF f.eol THEN Len(f.lines) ELSE Len(f.lines) - 1)

ColumnTokens(f, c) ==
    { Split(ScannedLines(f)[k])[c] : k \in 1..Len(ScannedLines(f)) }

Widest(toks) == CHOOSE n \in { Len(t) : t \in toks } : \A t \in toks : Len(t) <= n

\* C11: when the scan of the inferring import has completed and every width
\* is determined, a column is QUANTITATIVE of size sizeof(QUANT_TYPE) if
\* every token the scan met in it is a number (is_number), and otherwise
\* CATEGORICAL of size 1 + the length of the longest token the scan met in
\* it, tokens of rows before a demotion included.
C11_Inferred ==
    scan.pc = "done" =>
        \A c \in 1..Len(scan.vars) :
            LET toks == ColumnTokens(file, c)
                v    == scan.vars[c]
            IN  IF \A t \in toks : is_number(t)
                THEN v.data_type = "QUANTITATIVE" /\ v.size = SizeofQuant
                ELSE v.data_type = "CATEGORICAL" /\ v.size = 1 + Widest(toks)

\* a one-column file whose first data token is a number of two chars and
\* whose second is a text of one: the column was demoted at the second, and
\* its width comes from the first
C11_Witness ==
    /\ scan.pc = "done"
    /\ scan.restarts = 1
    /\ Len(scan.vars) = 1
    /\ Len(ScannedLines(file)) = 2
    /\ is_number(ScannedLines(file)[1]) /\ Len(ScannedLines(file)[1]) = 2
    /\ Len(ScannedLines(file)[2]) = 1
    /\ scan.vars[1].size = 3

Categoricals(vs) == { c \in 1..Len(vs) : vs[c].data_type = "CATEGORICAL" }

\* C12: during the scan a CATEGORICAL column stays CATEGORICAL; every restart
\* of the scan turns one QUANTITATIVE column CATEGORICAL, so there are never
\* more restarts than columns; and every scan that has begun comes to its
\* end (a throw, or the end of the file and with it the finalization).
C12_DemoteOnce ==
    /\ [][ scan.pc # "none" =>
             /\ Categoricals(scan.vars) \subseteq Categoricals(scan'.vars)
             /\ scan'.restarts # scan.restarts =>
                  /\ scan'.restarts = scan.restarts + 1
                  /\ Cardinality(Categoricals(scan'.vars))
                       = Cardinality(Categoricals(scan.vars)) + 1
             /\ scan'.restarts <= Len(scan'.vars) ]_vars
    /\ (scan.pc \in {"while", "for"}) ~> (scan.pc \notin {"while", "for"})

\* the scan of a two-column file has ended after two restarts
C12_Witness ==
    /\ scan.pc = "done"
    /\ scan.restarts = 2
    /\ Len(scan.vars) = 2

\* C13: the inferring import throws, and returns no store, whenever the scan
\* ends with a column of undetermined size, as it does on every file of a
\* header and no data line; no store it returns has a variable of
\* undetermined size.
C13_Undetermined ==
    /\ [][ /\ (scan.pc = "finalize" /\ Unsized(scan.vars))
              => /\ scan'.pc = "undetermined"
                 /\ ret'.err = "DataIOException"
                 /\ status' = "none"
           /\ (scan.pc = "finalize" /\ Len(file.lines) = 1 /\ Len(scan.vars) >= 1)
              => scan'.pc = "undetermined" ]_vars
    /\ [](status = "live" => ~Unsized(data_variables))

\* the import of a file of a two-column header and nothing else has thrown
C13_Witness ==
    /\ scan.pc = "undetermined"
    /\ Len(file.lines) = 1
    /\ Len(scan.vars) = 2
    /\ ret.err = "DataIOException"
    /\ status = "none"

\* a well-formed file: every line ends in '\n', and every data line is as
\* many tokens of at least one char as the header has names, with a comma
\* between two of them
WellFormedFile(f) ==
    /\ f.eol
    /\ Len(f.lines) >= 1
    /\ \A k \in 2..Len(f.lines) :
          /\ Len(Split(f.lines[k])) = Len(Split(f.lines[1]))
          /\ f.lines[k] = Joined(Split(f.lines[k]))
          /\ \A c \in 1..Len(Split(f.lines[k])) : Len(Split(f.lines[k])[c]) > 0

\* C17: the export of the store that the inferring import made of a
\* well-formed file has the header of the file and a line for each data line,
\* in order; in it a categorical field is the token of the file, and a
\* quantitative field is a text that stod takes to the token's value.
C17_InferThenExport ==
    ( out.exists /\ scan.pc = "done" /\ status = "live" /\ WellFormedFile(file) ) =>
        /\ out.lines[1] = file.lines[1]
        /\ Len(out.lines) = Len(file.lines)
        /\ \A k \in 2..Len(file.lines) :
              LET orig == Split(file.lines[k])
                  exp  == Split(out.lines[k])
              IN  /\ Len(exp) = Len(orig)
                  /\ \A c \in 1..Len(orig) :
                        IF scan.vars[c].data_type = "CATEGORICAL"
                        THEN exp[c] = orig[c]
                        ELSE stod(exp[c]).val = stod(orig[c]).val

\* C16: a DataSet written by write_to_csv and read back by read_from_csv with
\* its own variables comes back: the call returns a store of as many rows, in
\* which every field of every row has the bytes it had (categorical fields
\* hold no comma).
C16_RoundTrip ==
    ( ret.op = "read_from_csv" /\ out.exists /\ ~file.exists ) =>
        /\ ret.err = "none"
        /\ copy_variables = data_variables
        /\ Len(copy_elements) = Len(data_elements)
        /\ \A r \in 1..Len(data_elements) : \A i \in 1..Len(data_variables) :
              FieldBytes(copy_elements[r].data, data_variables[i])
                = FieldBytes(data_elements[r], data_variables[i])

\* C20: a copy (by construction or by assignment) is an independent store.
\* Right after the copy the two DataSets have the same variables and rows
\* holding the same bytes, and the copied DataSet is as it was; every later
\* call on either of them leaves the variables and the row bytes of the
\* other as they were.
CopyTaken == ret'.op \in {"copy", "assign"}

C20_IndependentCopy ==
    [][/\ CopyTaken =>
            /\ copy_variables' = data_variables'
            /\ RowsOf(copy_elements', data_elements') = data_elements'
            /\ UNCHANGED <<data_variables, data_elements>>
       /\ (~CopyTaken /\ ret'.op # "other" /\ status' = "live") =>
            /\ copy_variables' = copy_variables
            /\ RowsOf(copy_elements', data_elements')
                 = RowsOf(copy_elements, data_elements)]_vars

\* a copy with rows was taken and a variable of one of the two was removed
C20_Witness ==
    /\ status = "live"
    /\ ret.op = "remove_var_id"
    /\ ret.err = "none"
    /\ Len(copy_elements) > 0
    /\ Len(copy_variables) > Len(data_variables)

\* C18: a variable is removed and then forged again under its name, with the
\* identity transform and its size, from a variable of its kind that held the
\* same bytes in every row: every row then has, for that variable and for
\* every other one, the bytes it had before the removal (copy_* is the
\* DataSet as it was before the removal), whatever the offsets are.
VarOf(vs, id) == vs[get_var_by_id(vs, id)]

Kind(v) == <<v.variable_type, v.data_type, v.size>>

SameValues(vs, rows, id1, id2) ==
    \A r \in 1..Len(rows) :
        FieldBytes(rows[r].data, VarOf(vs, id1))
          = FieldBytes(rows[r].data, VarOf(vs, id2))

Rederived ==
    /\ status = "live"
    /\ Len(copy_variables) > 0
    /\ repacks = 2
    /\ ret.op = "forge_variable"
    /\ ret.err = "none"
    /\ ret.val[1] = "copy"
    /\ { data_variables[i].identifier : i \in 1..Len(data_variables) }
         = { copy_variables[i].identifier : i \in 1..Len(copy_variables) }
    /\ Len(data_variables) = Len(copy_variables)
    /\ Kind(VarOf(data_variables, ret.arg[1]))
         = Kind(VarOf(copy_variables, ret.arg[1]))
    /\ SameValues(copy_variables, copy_elements, ret.arg[1], ret.arg[2])

C18_DropThenDerive ==
    Rederived =>
        \A r \in 1..Len(data_elements) :
            \A v \in { copy_variables[i] : i \in 1..Len(copy_variables) } :
                FieldBytes(data_elements[r], VarOf(data_variables, v.identifier))
                  = FieldBytes(copy_elements[r].data, v)

\* the same, when the variable removed was the last one of the list
C18_LastVariable ==
    ( /\ Rederived
      /\ ret.arg[1] = copy_variables[Len(copy_variables)].identifier )
    => \A r \in 1..Len(data_elements) :
           \A v \in { copy_variables[i] : i \in 1..Len(copy_variables) } :
               FieldBytes(data_elements[r], VarOf(data_variables, v.identifier))
                 = FieldBytes(copy_elements[r].data, v)

\* C19: get_possible_values(id) returns -1 for a quantitative variable, and
\* for a categorical one the number of different byte patterns that the
\* field of THAT variable takes over the rows: rows that agree on it and
\* differ elsewhere count once.  (Read on stores whose variables are packed
\* and of different names, so that each field lies inside each row.)
Asked ==
    /\ status = "live"
    /\ ret.op = "get_possible_values"
    /\ WellFormed(data_variables)
    /\ ret.arg \in MemberNames

FieldPatterns(v) ==
    { FieldBytes(data_elements[r], v) : r \in 1..Len(data_elements) }

C19_PossibleValues ==
    Asked =>
        LET v == VarOf(data_variables, ret.arg)
        IN  IF v.data_type = "QUANTITATIVE"
            THEN ret.val = 0 - 1
            ELSE ret.val = Cardinality(FieldPatterns(v))

\* the same, on stores whose only variable is the one asked for
C19_SingleVariable ==
    (Asked /\ Len(data_variables) = 1) =>
        LET v == VarOf(data_variables, ret.arg)
        IN  IF v.data_type = "QUANTITATIVE"
            THEN ret.val = 0 - 1
            ELSE ret.val = Cardinality(FieldPatterns(v))

\* C21: when the variables are at running-sum offsets and a member is
\* removed, the new list is the old one without exactly that variable, in the
\* same order, the variables that followed it moved down by its size and no
\* other, and the offsets are running sums again.
Dropped ==
    /\ status = "live"
    /\ ret'.op \in {"remove_var", "remove_var_id"}
    /\ ret'.err = "none"
    /\ status' = "live"
    /\ IsPacked(data_variables)

\* the list vs without its k-th variable, the later ones moved down
Without(vs, k) ==
    [i \in 1..(Len(vs) - 1) |->
        IF i < k THEN vs[i]
        ELSE [vs[i + 1] EXCEPT !.offset = @ - vs[k].size]]

C21_DropRepacksSchema ==
    [][Dropped =>
          /\ \E k \in 1..Len(data_variables) :
                /\ data_variables[k] = ret'.val
                /\ data_variables' = Without(data_variables, k)
          /\ IsPacked(data_variables')]_vars

\* the same, when no other variable of the list equals the one removed
C21_NoEqualVariable ==
    [][( /\ Dropped
         /\ Cardinality({ k \in 1..Len(data_variables) :
                            data_variables[k] = ret'.val }) = 1 ) =>
          /\ \E k \in 1..Len(data_variables) :
                /\ data_variables[k] = ret'.val
                /\ data_variables' = Without(data_variables, k)
          /\ IsPacked(data_variables')]_vars

\* C22: a schema-given import of a file in which a record holds, for a
\* categorical column, a token longer than the column's size throws and
\* returns no store (read on files that end in '\n', all of whose lines the
\* loop processes).
LongTokens(f, vs, skip_first) ==
    { <<k, i>> \in (DOMAIN DataRecords(f, skip_first)) \X (1..Len(vs)) :
        /\ vs[i].data_type = "CATEGORICAL"
        /\ i <= Len(Split(DataRecords(f, skip_first)[k]))
        /\ Len(Split(DataRecords(f, skip_first)[k])[i]) > vs[i].size }

C22_FieldTooLong ==
    ( /\ ret.op = "read_from_csv"
      /\ file.eol
      /\ LongTokens(file, ret.arg[1], ret.arg[2]) # {} )
    => (ret.err # "none" /\ status = "none")

\* what the import stores for such a token: its first size bytes, and no
\* byte outside the column
C22_Truncated ==
    ( /\ ret.op = "read_from_csv"
      /\ ret.err = "none"
      /\ file.eol )
    => \A ki \in LongTokens(file, ret.arg[1], ret.arg[2]) :
          LET tok == Split(DataRecords(file, ret.arg[2])[ki[1]])[ki[2]]
              v   == ret.arg[1][ki[2]]
          IN  /\ FieldBytes(data_elements[ki[1]], v) = SubSeq(tok, 1, v.size)
              /\ Len(data_elements[ki[1]]) = compute_elem_size(ret.arg[1])

\* C23: whenever the inferring import has found its variables and calls the
\* import with a template on the same file, that call returns a store: no
\* token of a column found quantitative fails to parse, nothing is thrown,
\* and the store has one row for each data line that the scan processed.
Materialized == scan.pc = "done"

C23_SecondPassSucceeds ==
    Materialized =>
        /\ ret.err = "none"
        /\ status = "live"
        /\ Len(data_elements) = Len(ScannedLines(file))

\* the same, when no token of the file is "." alone (with blanks around it
\* or not): the one string that is_number accepts and stod does not
OnlyDot(tok) == is_number(tok) /\ stod(tok).err # "none"

C23_NoLoneDot ==
    ( /\ Materialized
      /\ \A k \in 1..Len(ScannedLines(file)) :
            \A i \in DOMAIN Split(ScannedLines(file)[k]) :
               ~OnlyDot(Split(ScannedLines(file)[k])[i]) )
    => /\ ret.err = "none"
       /\ status = "live"
       /\ Len(data_elements) = Len(ScannedLines(file))

\* C24: in every store that the inferring import returns, each field of a
\* categorical variable holds the bytes of its token, then '\0' bytes up to
\* the size of the variable, at least one of them: no token is cut, and the
\* last byte of the field is '\0'.
Imported == scan.pc = "done" /\ status = "live"

C24_ZeroTerminated ==
    Imported =>
        /\ Len(data_elements) = Len(ScannedLines(file))
        /\ \A r \in 1..Len(data_elements) :
              \A c \in 1..Len(data_variables) :
                 data_variables[c].data_type = "CATEGORICAL" =>
                    LET tok == Split(ScannedLines(file)[r])[c]
                        b   == FieldBytes(data_elements[r], data_variables[c])
                    IN  /\ Len(tok) < Len(b)
                        /\ SubSeq(b, 1, Len(tok)) = tok
                        /\ \A q \in (Len(tok) + 1)..Len(b) : b[q] = NUL

\* a store of two rows returned after a restart, with a categorical variable
\* whose two tokens differ in length
C24_Witness ==
    /\ Imported
    /\ scan.restarts > 0
    /\ Len(data_elements) = 2
    /\ \E c \in 1..Len(data_variables) :
          /\ data_variables[c].data_type = "CATEGORICAL"
          /\ Len(Split(ScannedLines(file)[1])[c])
               # Len(Split(ScannedLines(file)[2])[c])

============================================================================
